---- MODULE Spec2Model ----
(***************************************************************************)
(* pyFastBigInt: divide-and-conquer divmod, base-10 stringification and    *)
(* floor square root on arbitrary-precision integers (src/pyFastBigInt.py).*)
(*                                                                         *)
(* Every entry point is a pure function, so each is an operator computed   *)
(* the way the source computes it, and a specification draws the operands  *)
(* from a bounded set and applies the entry point in one step.             *)
(*                                                                         *)
(* The bailout thresholds are those of the source: 10000 bits for the      *)
(* kernel and 20000 bits for the stringifier.  Operands of that size do    *)
(* not fit the model checker's integers, so the program's integers are     *)
(* arbitrary-precision values in non-adjacent form: a sequence of terms    *)
(* <<c, e>>, c in {1, -1}, standing for the sum of c * 2^e, with strictly  *)
(* ascending exponents that differ by at least two.  The form is unique,   *)
(* so equality of sequences is equality of integers; <<>> is zero.  Bit    *)
(* counts, shift amounts, list indices and loop counters are plain         *)
(* integers.  The operands of the specifications are the small integers    *)
(* and structured operands around the thresholds (sums and differences of  *)
(* a few powers of two), for which every intermediate value stays short.   *)
(*                                                                         *)
(* Kernel results carry observation fields next to (q, r): the branch      *)
(* taken, the largest number of body executions of any correction loop,    *)
(* the step-1 remainder of the ideal branch, whether a kernel invocation   *)
(* received a negative dividend, and the nesting depth of recursive        *)
(* (non-bailout) invocations.  They do not influence q and r.              *)
(*                                                                         *)
(* A correction loop is followed for LoopCap executions of its body; the   *)
(* executions that remain are then taken in one step, which leaves in q    *)
(* and r the values the loop ends with and records LoopCap + 1 as the      *)
(* number of executions.                                                   *)
(***************************************************************************)
EXTENDS Integers, Sequences, FiniteSets

VARIABLES pc, op, m, n, res

vars == <<pc, op, m, n, res>>

\* ---------------------------------------------------------------- bounds
MaxM == 150
MaxN == 12
MaxSignedM == 40
MaxSignedN == 8
MaxStrN == 1200
MaxStrLead == 12
MaxStrExp == 24
MaxSqrtN == 1500
LoopCap == 8

\* ----------------------------------------------------- program constants
DIVMOD_BAILOUT_BITS == 10000
STRINGIFY_BAILOUT_BITS == 20000

\* ------------------------------------------- arbitrary-precision integers
Max2(a, b) == IF a >= b THEN a ELSE b

Min2(a, b) == IF a <= b THEN a ELSE b

\* the integers 0, 2^e, 1 and -1
Zero == <<>>

\* 2^e
Pow2(e) == << <<1, e>> >>

One == Pow2(0)

MinusOne == << <<-1, 0>> >>

\* the term-wise sum of two ascending term lists; coefficients may leave
\* {1, -1} and exponents may become adjacent until Norm is applied
RECURSIVE Merge(_, _)
Merge(x, y) ==
    IF x = <<>> THEN y
    ELSE IF y = <<>> THEN x
    ELSE IF x[1][2] < y[1][2] THEN <<x[1]>> \o Merge(Tail(x), y)
    ELSE IF x[1][2] > y[1][2] THEN <<y[1]>> \o Merge(x, Tail(y))
    ELSE << <<x[1][1] + y[1][1], x[1][2]>> >> \o Merge(Tail(x), Tail(y))

\* put the coefficient c of 2^e in front of rest
Carry(c, e, rest) == IF c = 0 THEN rest ELSE << <<c, e>> >> \o rest

\* the non-adjacent form of an ascending term list with integer coefficients
RECURSIVE Norm(_)
Norm(x) ==
    IF x = <<>> THEN <<>>
    ELSE LET c == x[1][1]
             e == x[1][2]
             rest == Tail(x)
             next == rest # <<>> /\ rest[1][2] = e + 1
             c1 == IF next THEN rest[1][1] ELSE 0
             rest1 == IF next THEN Tail(rest) ELSE rest
         IN  IF c = 0 THEN Norm(rest)
             ELSE IF c % 2 = 0 THEN Norm(Carry(c1 + c \div 2, e + 1, rest1))
             ELSE LET d == 2 - ((c + 2 * c1) % 4)
                  IN  << <<d, e>> >>
                      \o Norm(Carry(c1 + (c - d) \div 2, e + 1, rest1))

\* conversion from and to the model checker's integers
FromInt(i) == Norm(<< <<i, 0>> >>)

RECURSIVE ToInt(_)
ToInt(x) ==
    IF x = <<>> THEN 0 ELSE x[1][1] * (2 ^ x[1][2]) + ToInt(Tail(x))

\* -x, x + y, x - y
Neg(x) == [i \in 1..Len(x) |-> <<-x[i][1], x[i][2]>>]

Add(x, y) == Norm(Merge(x, y))

Sub(x, y) == Norm(Merge(x, Neg(y)))

\* the sign of x, which is the sign of its top term; x < y; x <= y; abs(x)
Sign(x) == IF x = <<>> THEN 0 ELSE x[Len(x)][1]

Less(x, y) == Sign(Sub(x, y)) < 0

LessEq(x, y) == Sign(Sub(x, y)) <= 0

Abs(x) == IF Sign(x) < 0 THEN Neg(x) ELSE x

\* x * y: the sum of the multiples c * 2^e * y over the terms of x
Scale(y, c, e) == [i \in 1..Len(y) |-> <<c * y[i][1], y[i][2] + e>>]

RECURSIVE Mul(_, _)
Mul(x, y) ==
    IF x = <<>> THEN <<>>
    ELSE Add(Scale(y, x[1][1], x[1][2]), Mul(Tail(x), y))

\* int.bit_length(): the bit length of abs(x)
BitLength(x) ==
    IF x = <<>> THEN 0
    ELSE IF Len(x) >= 2 /\ x[Len(x) - 1][1] # x[Len(x)][1]
         THEN x[Len(x)][2]
         ELSE x[Len(x)][2] + 1

\* x << b
ShiftLeft(x, b) == [i \in 1..Len(x) |-> <<x[i][1], x[i][2] + b>>]

\* the number of terms of x below 2^b
RECURSIVE LowCount(_, _)
LowCount(x, b) ==
    IF x = <<>> \/ x[1][2] >= b THEN 0 ELSE 1 + LowCount(Tail(x), b)

\* x >> b, rounding toward minus infinity: the terms below 2^b are dropped
\* and one is subtracted when they sum to a negative value
ShiftRight(x, b) ==
    LET k == LowCount(x, b)
        high == [i \in 1..(Len(x) - k) |-> <<x[i + k][1], x[i + k][2] - b>>]
    IN  IF k > 0 /\ x[k][1] < 0 THEN Sub(high, One) ELSE high

\* the number of consecutive one bits at the bottom of x in two's complement
TrailingOnes(x) ==
    IF x = <<>> \/ x[1][2] > 0 THEN 0 ELSE Add(x, One)[1][2]

\* x & y on two's complement: common low zero bits and low one bits are
\* peeled off together
RECURSIVE BitAnd(_, _)
BitAnd(x, y) ==
    IF x = Zero \/ y = Zero THEN Zero
    ELSE IF x = MinusOne THEN y
    ELSE IF y = MinusOne THEN x
    ELSE LET t == Max2(x[1][2], y[1][2])
             j == Min2(TrailingOnes(x), TrailingOnes(y))
         IN  IF t > 0
             THEN ShiftLeft(BitAnd(ShiftRight(x, t), ShiftRight(y, t)), t)
             ELSE Add(ShiftLeft(BitAnd(ShiftRight(x, j), ShiftRight(y, j)), j),
                      Sub(Pow2(j), One))

\* x | y on two's complement
RECURSIVE BitOr(_, _)
BitOr(x, y) ==
    IF x = Zero THEN y
    ELSE IF y = Zero THEN x
    ELSE IF x = MinusOne \/ y = MinusOne THEN MinusOne
    ELSE LET t == Min2(x[1][2], y[1][2])
             j == Max2(TrailingOnes(x), TrailingOnes(y))
         IN  IF t > 0
             THEN ShiftLeft(BitOr(ShiftRight(x, t), ShiftRight(y, t)), t)
             ELSE Add(ShiftLeft(BitOr(ShiftRight(x, j), ShiftRight(y, j)), j),
                      Sub(Pow2(j), One))

\* the floored quotient and remainder of q * b + r by b > 0: the power of
\* two nearest to abs(r) / b is moved from r to q until abs(r) < b
RECURSIVE FloorDivMod(_, _, _)
FloorDivMod(q, r, b) ==
    LET ar == Abs(r)
    IN  IF Less(ar, b)
        THEN IF Sign(r) < 0
             THEN [q |-> Sub(q, One), r |-> Add(r, b)]
             ELSE [q |-> q, r |-> r]
        ELSE LET e == BitLength(ar) - BitLength(b)
                 be == ShiftLeft(b, e)
                 d0 == Sub(ar, be)
                 t == IF Sign(d0) >= 0
                      THEN IF LessEq(ShiftLeft(d0, 1), be) THEN e ELSE e + 1
                      ELSE IF LessEq(ShiftLeft(Neg(d0), 2), be) THEN e ELSE e - 1
             IN  IF Sign(r) > 0
                 THEN FloorDivMod(Add(q, Pow2(t)), Sub(r, ShiftLeft(b, t)), b)
                 ELSE FloorDivMod(Sub(q, Pow2(t)), Add(r, ShiftLeft(b, t)), b)

\* ------------------------------------------------------------ the helper
splitHiLo(num, bitIdx) ==
    [hi |-> ShiftRight(num, bitIdx),
     lo |-> BitAnd(num, Sub(ShiftLeft(One, bitIdx), One))]

\* ------------------------------------------------------ the divmod kernel
KRes(q, r, branch, loops, r1, negArg, depth) ==
    [q |-> q, r |-> r, err |-> FALSE, branch |-> branch, loops |-> loops,
     r1 |-> r1, negArg |-> negArg, depth |-> depth]

\* a failure (the host's division by zero) surfacing in the given branch
KFail(branch, depth) ==
    [q |-> Zero, r |-> Zero, err |-> TRUE, branch |-> branch, loops |-> 0,
     r1 |-> Zero, negArg |-> FALSE, depth |-> depth]

\* the host's floored divmod for b # 0; the remainder has the sign of b
HostDivMod(a, b) ==
    LET NegateRemainder(d) == [q |-> d.q, r |-> Neg(d.r)]
    IN  IF Sign(b) > 0 THEN FloorDivMod(Zero, a, b)
        ELSE NegateRemainder(FloorDivMod(Zero, Neg(a), Neg(b)))

\* variant of NativeDivMod that returns (0, a) on a zero divisor
NativeDivModNoRaise(a, b) ==
    LET PairNoRaise(d) == KRes(d.q, d.r, "a", 0, Zero, Sign(a) < 0, 0)
    IN  IF b = Zero THEN KRes(Zero, a, "a", 0, Zero, Sign(a) < 0, 0)
        ELSE PairNoRaise(HostDivMod(a, b))

\* the host's divmod: floored, fails on a zero divisor
NativeDivMod(a, b) ==
    LET Pair(d) == KRes(d.q, d.r, "a", 0, Zero, Sign(a) < 0, 0)
    IN  IF b = Zero THEN KFail("a", 0) ELSE Pair(HostDivMod(a, b))

\* while r < 0: r += n; q -= 1
\* (after LoopCap executions the remaining ones are taken in one step)
RECURSIVE WhileNegative(_, _, _, _)
WhileNegative(q, r, d, c) ==
    LET RestNegative(t) == [q |-> Add(q, t.q), r |-> t.r, c |-> LoopCap + 1]
    IN  IF Sign(r) < 0
        THEN IF c < LoopCap
             THEN WhileNegative(Sub(q, One), Add(r, d), d, c + 1)
             ELSE RestNegative(FloorDivMod(Zero, r, d))
        ELSE [q |-> q, r |-> r, c |-> c]

\* variant of WhileNotLess whose test is 'r > n'
RECURSIVE WhileNotLessStrict(_, _, _, _)
WhileNotLessStrict(q, r, d, c) ==
    LET RestStrict(t) == [q |-> Add(q, t.q), r |-> t.r, c |-> LoopCap + 1]
    IN  IF Less(d, r)
        THEN IF c < LoopCap
             THEN WhileNotLessStrict(Add(q, One), Sub(r, d), d, c + 1)
             ELSE RestStrict(FloorDivMod(Zero, r, d))
        ELSE [q |-> q, r |-> r, c |-> c]

\* while r >= n: r -= n; q += 1
\* (after LoopCap executions the remaining ones are taken in one step)
RECURSIVE WhileNotLess(_, _, _, _)
WhileNotLess(q, r, d, c) ==
    LET RestNotLess(t) == [q |-> Add(q, t.q), r |-> t.r, c |-> LoopCap + 1]
    IN  IF LessEq(d, r)
        THEN IF c < LoopCap
             THEN WhileNotLess(Add(q, One), Sub(r, d), d, c + 1)
             ELSE RestNotLess(FloorDivMod(Zero, r, d))
        ELSE [q |-> q, r |-> r, c |-> c]

\* while r1.bit_length() >= k: r1 -= n; q1 += 1
\* (after LoopCap executions the remaining ones, for r1 > 0, are taken in
\* one step: the loop stops at the first r1 below 2^(k-1); from a negative
\* r1 of k bits or more the loop never stops)
RECURSIVE WhileBitLength(_, _, _, _, _)
WhileBitLength(q, r, d, k, c) ==
    LET RestBitLength(t) ==
            [q |-> Add(q, t), r |-> Sub(r, Mul(t, d)), c |-> LoopCap + 1]
    IN  IF BitLength(r) >= k
        THEN IF c < LoopCap \/ Sign(r) < 0
             THEN WhileBitLength(Add(q, One), Sub(r, d), d, k, c + 1)
             ELSE RestBitLength(
                      Add(FloorDivMod(Zero, Sub(r, Pow2(k - 1)), d).q, One))
        ELSE [q |-> q, r |-> r, c |-> c]

RECURSIVE divModPositiveArgs(_, _)
RECURSIVE LongDivision(_, _, _, _, _, _, _, _)

\* two correction loops run one after the other: the values the second
\* ends with and the larger number of executions
Both(w1, w2) == [q |-> w2.q, r |-> w2.r, c |-> Max2(w1.c, w2.c)]

\* the loop 'while r < 0' followed by the loop 'while r >= n'
NegativeThenNotLess(q, r, d) ==
    LET AfterNegative(w) == Both(w, WhileNotLess(w.q, w.r, d, 0))
    IN  AfterNegative(WhileNegative(q, r, d, 0))

\* the loop 'while r1 < 0' followed by the loop 'while r1.bit_length() >= k'
NegativeThenBitLength(q, r, d, k) ==
    LET AfterNegativeStep1(w) == Both(w, WhileBitLength(w.q, w.r, d, k, 0))
    IN  AfterNegativeStep1(WhileNegative(q, r, d, 0))

\* branch (c): equal bit lengths
EqualLength(a, b) ==
    LET EqualLengthResult(w) ==
            KRes(w.q, w.r, "c", w.c, Zero, Sign(a) < 0, 1)
    IN  EqualLengthResult(WhileNotLess(Zero, a, b, 0))

\* branch (d): m_len < 2 * n_len (the print of lines 152-153 needs n_hi = 0,
\* which a divisor of n_len bits shifted by fewer than n_len bits never is).
\* The steps read from the bottom up: split m and n, divide the high parts,
\* take n_lo * q from the remainder, correct
ShortDividend(a, b, m_len, n_len) ==
    LET k == m_len - n_len
        excess_bits == n_len - k
        ShortResult(s, w) ==
            KRes(w.q, w.r, "d", Max2(s.loops, w.c), Zero,
                 Sign(a) < 0 \/ s.negArg, s.depth + 1)
        ShortCorrect(s, m_lo, n_lo) ==
            IF s.err THEN KFail("d", s.depth + 1)
            ELSE ShortResult(s, NegativeThenNotLess(s.q,
                     Sub(BitOr(ShiftLeft(s.r, excess_bits), m_lo),
                         Mul(n_lo, s.q)), b))
        ShortDivide(ms, ns) ==
            ShortCorrect(divModPositiveArgs(ms.hi, ns.hi), ms.lo, ns.lo)
    IN  ShortDivide(splitHiLo(a, excess_bits), splitHiLo(b, excess_bits))

\* branch (e): m_len == 2 * n_len, the ideal case.  The steps read from the
\* bottom up: split m into m_hi, m_mid, m_lo and n into n_hi, n_lo; step 1
\* divides m_hi by n_hi and corrects (q1, r1); step 2 divides r1 by n_hi and
\* corrects (q2, r2)
IdealCase(a, b, n_len) ==
    LET k == n_len
        kh_floor == k \div 2
        kh_ceil == k - kh_floor
        IdealResult(d1, w1, d2, w2) ==
            KRes(Add(ShiftLeft(w1.q, kh_ceil), w2.q), w2.r, "e",
                 Max2(Max2(d1.loops, d2.loops), Max2(w1.c, w2.c)),
                 w1.r, Sign(a) < 0 \/ d1.negArg \/ d2.negArg,
                 Max2(d1.depth, d2.depth) + 1)
        Step2Correct(d1, w1, d2, q2, m_lo, n_lo) ==
            IdealResult(d1, w1, d2, NegativeThenNotLess(q2,
                Sub(BitOr(ShiftLeft(d2.r, kh_ceil), m_lo), Mul(n_lo, q2)), b))
        Step2(d1, w1, d2, m_lo, n_lo) ==
            IF d2.err THEN KFail("e", Max2(d1.depth, d2.depth) + 1)
            ELSE Step2Correct(d1, w1, d2,
                     IF k % 2 # 0 THEN ShiftLeft(d2.q, 1) ELSE d2.q,
                     m_lo, n_lo)
        Step1Corrected(d1, w1, m_lo, ns) ==
            Step2(d1, w1, divModPositiveArgs(w1.r, ns.hi), m_lo, ns.lo)
        Step1(d1, m_mid, m_lo, ns) ==
            IF d1.err THEN KFail("e", d1.depth + 1)
            ELSE Step1Corrected(d1, NegativeThenBitLength(d1.q,
                     Sub(BitOr(ShiftLeft(d1.r, kh_floor), m_mid),
                         Mul(ns.lo, d1.q)), b, k), m_lo, ns)
        IdealDivide(m_hi, s2, ns) ==
            Step1(divModPositiveArgs(m_hi, ns.hi), s2.hi, s2.lo, ns)
        IdealSplit(s1) ==
            IdealDivide(s1.hi, splitHiLo(s1.lo, kh_ceil),
                        splitHiLo(b, kh_floor))
    IN  IdealSplit(splitHiLo(a, k))

\* branch (f): the loop 'while r > n' of the long division and the closing
\* shift; loops, negArg and depth accumulate the observations of the
\* nested calls
LongDivision(q, r, b, k, remainingBits, loops, negArg, depth) ==
    LET newRemainingBits == Max2(BitLength(r) - 2 * k, 0)
        bitsProcessed == remainingBits - newRemainingBits
        LongContinue(s, r_lo) ==
            IF s.err THEN KFail("f", Max2(depth, s.depth) + 1)
            ELSE LongDivision(Add(ShiftLeft(q, bitsProcessed), s.q),
                              BitOr(ShiftLeft(s.r, newRemainingBits), r_lo),
                              b, k, newRemainingBits,
                              Max2(loops, s.loops), negArg \/ s.negArg,
                              Max2(depth, s.depth))
        LongDivide(rs) == LongContinue(divModPositiveArgs(rs.hi, b), rs.lo)
    IN  IF Less(b, r) THEN LongDivide(splitHiLo(r, newRemainingBits))
        ELSE KRes(ShiftLeft(q, remainingBits), r, "f", loops, Zero, negArg,
                  depth + 1)

divModPositiveArgs(a, b) ==
    LET m_len == BitLength(a)
        n_len == BitLength(b)
    IN  IF n_len < DIVMOD_BAILOUT_BITS THEN NativeDivMod(a, b)
        ELSE IF m_len < n_len THEN KRes(Zero, a, "b", 0, Zero, Sign(a) < 0, 1)
        ELSE IF m_len = n_len THEN EqualLength(a, b)
        ELSE IF m_len < 2 * n_len THEN ShortDividend(a, b, m_len, n_len)
        ELSE IF m_len = 2 * n_len THEN IdealCase(a, b, n_len)
        ELSE LongDivision(Zero, a, b, n_len, m_len - 2 * n_len, 0,
                          Sign(a) < 0, 0)

\* ------------------------------------------------------ the signed wrapper
\* variant of SignRules that returns n + r for either sign of m
SignRulesSameOffset(a, b, q, r) ==
    IF Sign(a) > 0 /\ Sign(b) > 0 THEN [q |-> q, r |-> r]
    ELSE IF Sign(a) < 0 /\ Sign(b) < 0 THEN [q |-> q, r |-> Neg(r)]
    ELSE IF r = Zero THEN [q |-> Neg(q), r |-> r]
    ELSE [q |-> Neg(Add(q, One)), r |-> Add(b, r)]

\* the floored-division sign rules applied to the kernel's (q, r)
SignRules(a, b, q, r) ==
    IF Sign(a) > 0 /\ Sign(b) > 0 THEN [q |-> q, r |-> r]
    ELSE IF Sign(a) < 0 /\ Sign(b) < 0 THEN [q |-> q, r |-> Neg(r)]
    ELSE IF r = Zero THEN [q |-> Neg(q), r |-> r]
    ELSE IF Sign(a) > 0 THEN [q |-> Neg(Add(q, One)), r |-> Add(b, r)]
    ELSE [q |-> Neg(Add(q, One)), r |-> Sub(b, r)]

fastBigIntDivMod(a, b) ==
    LET WithSigns(k, s) == [q |-> s.q, r |-> s.r, err |-> FALSE, kernel |-> k]
        FromKernel(k) ==
            IF k.err THEN [q |-> Zero, r |-> Zero, err |-> TRUE, kernel |-> k]
            ELSE WithSigns(k, SignRules(a, b, k.q, k.r))
    IN  FromKernel(divModPositiveArgs(Abs(a), Abs(b)))

\* --------------------------------------------------- base-10 stringification
Digits == <<"0", "1", "2", "3", "4", "5", "6", "7", "8", "9">>

Ten == FromInt(10)

\* the host's str on a nonnegative integer, most significant digit first
RECURSIVE StrNat(_)
StrNat(x) ==
    LET LastDigit(d) == Append(StrNat(d.q), Digits[ToInt(d.r) + 1])
    IN  IF Less(x, Ten) THEN <<Digits[ToInt(x) + 1]>>
        ELSE LastDigit(FloorDivMod(Zero, x, Ten))

\* the host's str
NativeStr(x) == IF Sign(x) < 0 THEN <<"-">> \o StrNat(Neg(x)) ELSE StrNat(x)

\* '0' * count; a count below one gives the empty string
RECURSIVE Zeros(_)
Zeros(count) == IF count <= 0 THEN <<>> ELSE <<"0">> \o Zeros(count - 1)

\* powers[i] with the host's indexing: from zero, negative from the end
Index(powers, i) ==
    IF i >= 0 THEN powers[i + 1] ELSE powers[Len(powers) + i + 1]

\* the table of 10 ** (2 ** i): the loop of lines 41-43
RECURSIVE BuildPowers(_, _)
BuildPowers(powers, x) ==
    LET Squared(p) == Append(powers, Mul(p, p))
    IN  IF BitLength(powers[Len(powers)]) * 2 < BitLength(x)
        THEN BuildPowers(Squared(powers[Len(powers)]), x)
        ELSE powers

RECURSIVE toBase10StringHelper(_, _, _)
toBase10StringHelper(x, powers, digitsLog2) ==
    LET Padded(chars) == Zeros((2 ^ digitsLog2) - Len(chars)) \o chars
        Halves(d) == toBase10StringHelper(d.q, powers, digitsLog2 - 1)
                     \o toBase10StringHelper(d.r, powers, digitsLog2 - 1)
    IN  IF BitLength(x) < STRINGIFY_BAILOUT_BITS THEN Padded(NativeStr(x))
        ELSE Halves(divModPositiveArgs(x, Index(powers, digitsLog2 - 1)))

\* the index left in i by the loop of lines 47-49: the first character that
\* is not '0', or the last index
RECURSIVE FirstNonZero(_, _)
FirstNonZero(chars, i) ==
    IF chars[i] # "0" \/ i = Len(chars) THEN i
    ELSE FirstNonZero(chars, i + 1)

RECURSIVE fastBigIntStrBase10(_)
fastBigIntStrBase10(x) ==
    LET Stripped(chars) == SubSeq(chars, FirstNonZero(chars, 1), Len(chars))
        WithPowers(powers) ==
            Stripped(toBase10StringHelper(x, powers, Len(powers)))
    IN  IF x = Zero THEN <<"0">>
        ELSE IF Sign(x) < 0 THEN <<"-">> \o fastBigIntStrBase10(Neg(x))
        ELSE WithPowers(BuildPowers(<<Ten>>, x))

\* ---------------------------------------------------------- floor square root
\* while (s+1)*(s+1) <= n: s += 1
RECURSIVE BruteForce(_, _)
BruteForce(s, x) ==
    IF LessEq(Mul(Add(s, One), Add(s, One)), x) THEN BruteForce(Add(s, One), x)
    ELSE s

\* while actualSquare > n: approx -= 1; actualSquare -= ((approx << 1) | 1)
RECURSIVE CorrectDown(_, _, _, _)
CorrectDown(approx, actualSquare, x, c) ==
    IF Less(x, actualSquare)
    THEN CorrectDown(Sub(approx, One),
                     Sub(actualSquare,
                         BitOr(ShiftLeft(Sub(approx, One), 1), One)), x, c + 1)
    ELSE [s |-> approx, c |-> c]

\* while actualSquare <= n: approx += 1; actualSquare += ((approx << 1) | 1)
RECURSIVE CorrectUp(_, _, _, _)
CorrectUp(approx, actualSquare, x, c) ==
    IF LessEq(actualSquare, x)
    THEN CorrectUp(Add(approx, One),
                   Add(actualSquare,
                       BitOr(ShiftLeft(Add(approx, One), 1), One)), x, c + 1)
    ELSE [s |-> approx, c |-> c]

\* variant of Correct whose first test is 'actualSquare >= n'
CorrectOnEqual(approx, x) ==
    LET actualSquare == Mul(approx, approx)
    IN  IF LessEq(x, actualSquare)
        THEN CorrectDown(Sub(approx, One),
                         Sub(actualSquare,
                             BitOr(ShiftLeft(Sub(approx, One), 1), One)), x, 1)
        ELSE CorrectUp(approx,
                       Add(actualSquare, BitOr(ShiftLeft(approx, 1), One)), x, 0)

\* lines 315-328: correct the Newton approximation up or down until exact
Correct(approx, x) ==
    LET actualSquare == Mul(approx, approx)
    IN  IF Less(x, actualSquare)
        THEN CorrectDown(Sub(approx, One),
                         Sub(actualSquare,
                             BitOr(ShiftLeft(Sub(approx, One), 1), One)), x, 1)
        ELSE CorrectUp(approx,
                       Add(actualSquare, BitOr(ShiftLeft(approx, 1), One)), x, 0)

\* the result carries as observations the Newton quotient's kernel branch,
\* the largest number of corrections of any level and the largest number of
\* executions of a kernel correction loop
RECURSIVE floorSqrtPositiveInt(_)
floorSqrtPositiveInt(x) ==
    LET resultPadBits == BitLength(x) \div 4
        padBits == 2 * resultPadBits
        SqrtResult(sub, d, c) ==
            [s |-> c.s, err |-> FALSE, newton |-> d.branch,
             corr |-> Max2(sub.corr, c.c), loops |-> Max2(sub.loops, d.loops)]
        Newton(sub, approx, d) ==
            IF d.err
            THEN [s |-> Zero, err |-> TRUE, newton |-> d.branch, corr |-> 0,
                  loops |-> 0]
            ELSE SqrtResult(sub, d, Correct(ShiftRight(Add(approx, d.q), 1), x))
        NewtonDivide(sub, approx) ==
            Newton(sub, approx, divModPositiveArgs(x, approx))
        FromHalf(sub) ==
            IF sub.err
            THEN [s |-> Zero, err |-> TRUE, newton |-> "none", corr |-> 0,
                  loops |-> 0]
            ELSE NewtonDivide(sub, ShiftLeft(sub.s, resultPadBits))
    IN  IF BitLength(x) <= 1
        THEN [s |-> x, err |-> FALSE, newton |-> "none", corr |-> 0,
              loops |-> 0]
        ELSE IF BitLength(x) < 8
        THEN [s |-> BruteForce(One, x), err |-> FALSE, newton |-> "none",
              corr |-> 0, loops |-> 0]
        ELSE FromHalf(floorSqrtPositiveInt(ShiftRight(x, padBits)))

\* a negative argument is a domain error
fastBigIntFloorSqrt(x) ==
    IF Sign(x) < 0
    THEN [s |-> Zero, err |-> TRUE, newton |-> "none", corr |-> 0, loops |-> 0]
    ELSE floorSqrtPositiveInt(x)

\* ---------------------------------------------------------------- operands
\* the integers lo .. hi
Ints(lo, hi) == {FromInt(i) : i \in lo..hi}

\* x and -x
Signed(x) == {x, Neg(x)}

\* bit lengths K of the large divisors: right below the bailout threshold,
\* at it, right above it (odd), and long enough for the halves of the
\* divisor to be divided recursively (even and odd)
DivisorLengths ==
    {DIVMOD_BAILOUT_BITS - 1, DIVMOD_BAILOUT_BITS, DIVMOD_BAILOUT_BITS + 1,
     2 * DIVMOD_BAILOUT_BITS, 2 * DIVMOD_BAILOUT_BITS + 1,
     4 * DIVMOD_BAILOUT_BITS}

\* divisors of K bits: 2^(K-1), 2^(K-1) + 1, 2^K - 1, 2^(K-1) + 2^(3K/4),
\* 2^(K-1) + 2^(K/2)
Divisors(K) ==
    {Add(Pow2(K - 1), a) :
        a \in {Zero, One, Sub(Pow2(K - 1), One), Pow2((3 * K) \div 4),
               Pow2(K \div 2)}}

Quotients(K) ==
    {Zero, One, Pow2(K \div 2 - 1), Pow2(K \div 2), Add(Pow2(K \div 2), One),
     Sub(Pow2(K), One), Add(Pow2(K + 1), One),
     Add(Pow2(2 * K), Pow2(K \div 2))}

Remainders(b, K) ==
    {Zero, One, Sub(b, One), Add(Pow2(K - 1), FromInt(5)),
     Sub(b, Sub(Pow2((3 * K) \div 4), One)), Pow2(K \div 2)}

Shifts(K) == {0, 1, K \div 2, K}

\* dividends (q * b + r) << sh: shorter than b, as long as b, up to twice
\* as long, exactly twice as long, and longer
Dividends(b, K) ==
    {ShiftLeft(Add(Mul(q, b), r), sh) :
        q \in Quotients(K), r \in Remainders(b, K), sh \in Shifts(K)}

\* 10 ** k
RECURSIVE Pow10(_)
Pow10(k) == IF k = 0 THEN One ELSE Mul(Ten, Pow10(k - 1))

\* a * 10^k and a * 10^k - 1
Decimals ==
    UNION {{Mul(FromInt(a), Pow10(k)), Sub(Mul(FromInt(a), Pow10(k)), One)} :
            a \in 1..MaxStrLead, k \in 0..MaxStrExp}

\* bit lengths of the large square roots, around the length at which the
\* Newton division leaves the kernel's bailout branch
RootLengths ==
    {DIVMOD_BAILOUT_BITS - 2, DIVMOD_BAILOUT_BITS - 1, DIVMOD_BAILOUT_BITS,
     DIVMOD_BAILOUT_BITS + 1, 2 * DIVMOD_BAILOUT_BITS,
     2 * DIVMOD_BAILOUT_BITS + 1, 4 * DIVMOD_BAILOUT_BITS}

Roots(j) == {Add(Pow2(j), FromInt(c)) : c \in -2..2}

\* s^2 - 1, s^2, s^2 + 1, s^2 + s, (s + 1)^2 - 1
Radicands(s) ==
    {Add(Mul(s, s), d) : d \in {MinusOne, Zero, One, s, ShiftLeft(s, 1)}}

\* (((2^2T - 1)^2 + 2^2T - 1 - 2^T) << 4T) | 2^2T, T the kernel's threshold:
\* its Newton division sends a negative dividend through the kernel
SlowRadicand ==
    LET T == DIVMOD_BAILOUT_BITS
        a == Sub(Pow2(2 * T), One)
    IN  BitOr(ShiftLeft(Sub(Add(Mul(a, a), a), Pow2(T)), 4 * T), Pow2(2 * T))

\* ---------------------------------------------------------- specifications
NoResult == [q |-> Zero, r |-> Zero, err |-> FALSE, kernel |-> KFail("a", 0)]

\* the kernel applied to a nonnegative dividend and a positive divisor
InitKernel ==
    /\ pc = "call"
    /\ op = "kernel"
    /\ \/ n \in Ints(1, MaxN) /\ m \in Ints(0, MaxM)
       \/ \E K \in DivisorLengths : n \in Divisors(K) /\ m \in Dividends(n, K)
    /\ res = NoResult

CallKernel ==
    /\ pc = "call"
    /\ op = "kernel"
    /\ pc' = "done"
    /\ res' = [q |-> Zero, r |-> Zero, err |-> FALSE,
               kernel |-> divModPositiveArgs(m, n)]
    /\ UNCHANGED <<op, m, n>>

SpecKernel == InitKernel /\ [][CallKernel]_vars

\* the public divmod applied to operands of every sign, zero included
InitDivMod ==
    /\ pc = "call"
    /\ op = "divmod"
    /\ \/ /\ n \in Ints(-MaxSignedN, MaxSignedN)
          /\ m \in Ints(-MaxSignedM, MaxSignedM)
       \/ \E K \in {DIVMOD_BAILOUT_BITS, DIVMOD_BAILOUT_BITS + 1} :
            \E b \in Divisors(K) :
                /\ n \in Signed(b) \cup {Zero}
                /\ m \in UNION {Signed(a) : a \in Dividends(b, K)}
    /\ res = NoResult

CallDivMod ==
    /\ pc = "call"
    /\ op = "divmod"
    /\ pc' = "done"
    /\ res' = fastBigIntDivMod(m, n)
    /\ UNCHANGED <<op, m, n>>

SpecDivMod == InitDivMod /\ [][CallDivMod]_vars

\* the public stringifier; the result records the power table of lines 41-43
InitStr ==
    /\ pc = "call"
    /\ op = "str"
    /\ m = Zero
    /\ n \in Ints(-MaxStrN, MaxStrN) \cup UNION {Signed(d) : d \in Decimals}
    /\ res = NoResult

CallStr ==
    /\ pc = "call"
    /\ op = "str"
    /\ pc' = "done"
    /\ res' = [str |-> fastBigIntStrBase10(n),
               powers |-> IF n = Zero THEN <<>> ELSE BuildPowers(<<Ten>>, Abs(n))]
    /\ UNCHANGED <<op, m, n>>

SpecStr == InitStr /\ [][CallStr]_vars

\* the public floor square root
InitSqrt ==
    /\ pc = "call"
    /\ op = "sqrt"
    /\ m = Zero
    /\ n \in Ints(-MaxN, MaxSqrtN)
             \cup UNION {Radicands(s) : s \in UNION {Roots(j) : j \in RootLengths}}
             \cup {SlowRadicand}
    /\ res = NoResult

CallSqrt ==
    /\ pc = "call"
    /\ op = "sqrt"
    /\ pc' = "done"
    /\ res' = fastBigIntFloorSqrt(n)
    /\ UNCHANGED <<op, m, n>>

SpecSqrt == InitSqrt /\ [][CallSqrt]_vars

\* every entry point together
Init == InitKernel \/ InitDivMod \/ InitStr \/ InitSqrt

Next == CallKernel \/ CallDivMod \/ CallStr \/ CallSqrt

Spec == Init /\ [][Next]_vars

\* ------------------------------------------------------------- properties
Done == pc = "done"

\* (q, r) is the floored quotient and remainder of a by b, b # 0
Floored(a, b, q, r) ==
    /\ a = Add(Mul(q, b), r)
    /\ Sign(b) > 0 => (Sign(r) >= 0 /\ Less(r, b))
    /\ Sign(b) < 0 => (Less(b, r) /\ Sign(r) <= 0)

\* the kernel's own contract on (q, r)
KernelContract(a, b, k) ==
    ~k.err /\ a = Add(Mul(k.q, b), k.r) /\ Sign(k.r) >= 0 /\ Less(k.r, b)

\* int(): the value of a decimal string with an optional leading '-'
DigitValue(c) == CHOOSE d \in 0..9 : Digits[d + 1] = c

RECURSIVE ParseNat(_)
ParseNat(chars) ==
    IF chars = <<>> THEN Zero
    ELSE Add(Mul(Ten, ParseNat(SubSeq(chars, 1, Len(chars) - 1))),
             FromInt(DigitValue(chars[Len(chars)])))

Parse(chars) ==
    IF chars # <<>> /\ chars[1] = "-" THEN Neg(ParseNat(Tail(chars)))
    ELSE ParseNat(chars)

LastPower == res.powers[Len(res.powers)]

\* C1: for every m and every n # 0, of every sign and size, fastBigIntDivMod
\* returns the floored pair: m = q*n + r with 0 <= r < n for n > 0 and
\* n < r <= 0 for n < 0.
C1_DivModFloored ==
    (Done /\ op = "divmod" /\ n # Zero) =>
        (~res.err /\ Floored(m, n, res.q, res.r))

\* C2: for every n, fastBigIntStrBase10(n) is the host's decimal string of n:
\* "0" for zero, "-" and the digits of |n| for n < 0, no leading '0' for
\* n # 0, and parsing it gives back n.
C2_StrMatchesHost ==
    (Done /\ op = "str") =>
        /\ res.str = NativeStr(n)
        /\ n = Zero => res.str = <<"0">>
        /\ Sign(n) < 0 => res.str[1] = "-"
        /\ Sign(n) > 0 => res.str[1] # "0"
        /\ Parse(res.str) = n

\* C3: for every n >= 0, fastBigIntFloorSqrt(n) returns s with
\* s*s <= n < (s+1)*(s+1), in the direct cases and in the Newton case.
C3_FloorSqrtExact ==
    (Done /\ op = "sqrt" /\ Sign(n) >= 0) =>
        /\ ~res.err
        /\ Sign(res.s) >= 0
        /\ LessEq(Mul(res.s, res.s), n)
        /\ Less(n, Mul(Add(res.s, One), Add(res.s, One)))

\* C3 witness: the Newton case ran on an operand of more than twice the
\* kernel's threshold, its quotient came from a recursive branch of the
\* kernel, a correction was applied, and the result is the floor square root.
C3_Witness ==
    /\ Done /\ op = "sqrt"
    /\ BitLength(n) > 2 * DIVMOD_BAILOUT_BITS
    /\ res.newton \in {"d", "e"}
    /\ res.corr >= 1
    /\ LessEq(Mul(res.s, res.s), n)
    /\ Less(n, Mul(Add(res.s, One), Add(res.s, One)))

\* C4: fastBigIntDivMod(m, 0) ends in the host's division-by-zero failure
\* raised in the bailout branch: no pair is returned, no recursive branch is
\* entered and no correction loop runs.
C4_ZeroDivisorFails ==
    (Done /\ op = "divmod" /\ n = Zero) =>
        /\ res.err
        /\ res.kernel.err
        /\ res.kernel.branch = "a"
        /\ res.kernel.depth = 0
        /\ res.kernel.loops = 0

\* C4 witness: a negative dividend longer than twice the threshold was
\* divided by zero and the call failed.
C4_Witness ==
    /\ Done /\ op = "divmod" /\ n = Zero
    /\ Sign(m) < 0 /\ BitLength(m) > 2 * DIVMOD_BAILOUT_BITS
    /\ res.err

\* C5: in the general case of the kernel (bit-length(m) > 2*bit-length(n),
\* n at or above the threshold) the long-division loop returns (q, r) with
\* m = q*n + r and 0 <= r < n; the remainder is never equal to n.
C5_LongDivisionContract ==
    (Done /\ op = "kernel" /\ res.kernel.branch = "f") =>
        (KernelContract(m, n, res.kernel) /\ res.kernel.r # n)

\* C6: in every branch of the kernel, no correction loop executes its body
\* more than 4 times in any invocation at any recursion depth.
C6_CorrectionsAtMost4 ==
    (Done /\ op = "kernel") => (~res.kernel.err /\ res.kernel.loops <= 4)

\* C7: in the ideal branch, after the correction loops of step 1 the
\* remainder satisfies 0 <= r1 and bit-length(r1) < K, so the second
\* recursive call receives a nonnegative dividend.
C7_Step1RemainderInRange ==
    (Done /\ op = "kernel" /\ res.kernel.branch = "e") =>
        /\ Sign(res.kernel.r1) >= 0
        /\ BitLength(res.kernel.r1) < BitLength(n)
        /\ ~res.kernel.negArg

\* C8: in the ideal branch (bit-length(m) = 2K, K at or above the threshold,
\* K even or odd) the returned pair satisfies m = q*n + r and 0 <= r < n,
\* also where the step-1 bit-length test subtracts n once too often.
C8_IdealCaseContract ==
    (Done /\ op = "kernel" /\ res.kernel.branch = "e") =>
        KernelContract(m, n, res.kernel)

\* C8 witness: an ideal-branch division with odd K whose step 1 subtracted
\* n once too often (r1 < 0), went through recursive invocations, and
\* returned the exact pair.
C8_Witness ==
    /\ Done /\ op = "kernel" /\ res.kernel.branch = "e"
    /\ BitLength(n) % 2 = 1
    /\ Sign(res.kernel.r1) < 0
    /\ res.kernel.depth >= 2
    /\ KernelContract(m, n, res.kernel)

\* C9: for every n > 0 the power table covers the operand when the helper
\* is first called: bit-length(P[last]^2) >= bit-length(n) and
\* n < P[last]^2.
C9_PowerTableCovers ==
    (Done /\ op = "str" /\ Sign(n) > 0) =>
        /\ BitLength(Mul(LastPower, LastPower)) >= BitLength(n)
        /\ Less(n, Mul(LastPower, LastPower))

\* C10: the sign rules are correct on top of a correct kernel: when the
\* kernel's (q, r) for (|m|, |n|) satisfies its contract, the wrapper
\* returns the floored quotient and remainder of m by n, n # 0.
C10_SignRulesCorrect ==
    (Done /\ op = "divmod" /\ n # Zero
          /\ KernelContract(Abs(m), Abs(n), res.kernel)) =>
        (~res.err /\ Floored(m, n, res.q, res.r))

\* C10 witness: mixed signs with a nonzero kernel remainder, m < 0 < n, on
\* operands above the threshold: the kernel met its contract in a recursive
\* branch and the wrapper returned (-(q+1), n - r).
C10_Witness ==
    /\ Done /\ op = "divmod" /\ Sign(m) < 0 /\ Sign(n) > 0
    /\ KernelContract(Abs(m), Abs(n), res.kernel)
    /\ res.kernel.r # Zero
    /\ res.kernel.branch # "a"
    /\ res.q = Neg(Add(res.kernel.q, One))
    /\ res.r = Sub(n, res.kernel.r)

====
